---- MODULE Spec2Model ----
(***************************************************************************)
(* A model of ioprio (src/src/lib.rs): the level types, Class, the 16-bit  *)
(* Priority codec, the orderings, and the two ioprio_get / ioprio_set      *)
(* wrappers.                                                               *)
(*                                                                         *)
(* The library holds no state of its own.  The model's state is one call   *)
(* of the library: the operation called, its arguments, whether it has     *)
(* returned, what it returned, and, for the syscall wrappers, what the     *)
(* kernel was asked.                                                       *)
(*                                                                         *)
(*   Spec     the pure operations: Init draws an operation and its         *)
(*            arguments, one action per operation applies it.              *)
(*   SpecSys  set_priority / get_priority against a kernel whose reply is  *)
(*            a nondeterministic choice.                                   *)
(***************************************************************************)
EXTENDS Integers, Sequences, FiniteSets, TLC

VARIABLES
    op,       \* the operation called
    x,        \* its first argument (self)
    y,        \* its second argument (other), NoArg when there is none
    pc,       \* "ready": called with x, y; "done": returned ret
    ret,      \* the value returned
    nsys,     \* number of kernel invocations made so far
    lastsys   \* the last kernel invocation: number, arguments, reply

vars == <<op, x, y, pc, ret, nsys, lastsys>>

----------------------------------------------------------------------------
(* Widths and bounds *)

\* u8 and u16 value counts; the largest i32 (pid_t, c_int)
U8Size == 256
U16Size == 65536
I32Max == 2147483647

\* Data-field values 0..MaxData are sampled for pairs of raw priorities,
\* next to the u8 / 13-bit boundaries.
MaxData == 8
\* Ids 1..MaxId are sampled for targets, next to the i32 / u32 boundaries.
MaxId == 2
\* Kernel invocations counted up to MaxCalls.
MaxCalls == 3

----------------------------------------------------------------------------
(* Option, Result, Ordering *)

Some(v) == [some |-> TRUE, val |-> v]
None == [some |-> FALSE]

Ok(v) == [ok |-> TRUE, val |-> v]
Err(e) == [ok |-> FALSE, err |-> e]
Unit == <<>>

NoArg == [none |-> TRUE]

\* a call that panicked instead of returning
Panicked == [panic |-> TRUE]

\* u16 / u8 Ord::cmp
IntCmp(a, b) == IF a < b THEN "Less" ELSE IF a > b THEN "Greater" ELSE "Equal"

\* Ordering::reverse
Reverse(o) == IF o = "Less" THEN "Greater" ELSE IF o = "Greater" THEN "Less" ELSE o

----------------------------------------------------------------------------
(* u16 arithmetic *)

RECURSIVE BitAnd(_, _)
BitAnd(a, b) ==
    IF a = 0 \/ b = 0 THEN 0
    ELSE (a % 2) * (b % 2) + 2 * BitAnd(a \div 2, b \div 2)

RECURSIVE BitOr(_, _)
BitOr(a, b) ==
    IF a = 0 THEN b
    ELSE IF b = 0 THEN a
    ELSE (IF a % 2 = 1 \/ b % 2 = 1 THEN 1 ELSE 0) + 2 * BitOr(a \div 2, b \div 2)

\* a << n and a >> n on u16
Shl16(a, n) == (a * 2^n) % U16Size
Shr16(a, n) == a \div 2^n

\* u16 -> u8 TryInto, .ok()
TryIntoU8(d) == IF d < U8Size THEN Some(d) ELSE None

----------------------------------------------------------------------------
(* RtPriorityLevel, BePriorityLevel *)

RtLevel(n) == [inner |-> n]
BeLevel(n) == [inner |-> n]

RtHighest == RtLevel(0)
RtLowest == RtLevel(7)

RtFromLevel(level) == IF level < 8 THEN Some(RtLevel(level)) ELSE None

RtLevelOf(self) == self.inner
RtData(self) == self.inner

\* mutant: the ordering not reversed
RtCmp_NotReversed(self, other) == IntCmp(RtData(self), RtData(other))

RtCmp(self, other) == Reverse(IntCmp(RtData(self), RtData(other)))

BeHighest == BeLevel(0)
BeFallback == BeLevel(4)
BeLowest == BeLevel(7)

\* mutant: the bound off by one
BeFromLevel_Le8(level) == IF level <= 8 THEN Some(BeLevel(level)) ELSE None

BeFromLevel(level) == IF level < 8 THEN Some(BeLevel(level)) ELSE None

BeLevelOf(self) == self.inner
BeData(self) == self.inner

BeCmp(self, other) == Reverse(IntCmp(BeData(self), BeData(other)))

----------------------------------------------------------------------------
(* Class *)

Realtime(l) == [tag |-> "Realtime", level |-> l]
BestEffort(l) == [tag |-> "BestEffort", level |-> l]
Idle == [tag |-> "Idle"]

\* mutant: BestEffort ranked with Idle
ClassRelPriority_BeZero(self) ==
    CASE self.tag = "Realtime" -> 2
      [] self.tag = "BestEffort" -> 0
      [] self.tag = "Idle" -> 0

\* mutant: the ranks of Realtime and BestEffort exchanged
ClassRelPriority_Swapped(self) ==
    CASE self.tag = "Realtime" -> 1
      [] self.tag = "BestEffort" -> 2
      [] self.tag = "Idle" -> 0

ClassRelPriority(self) ==
    CASE self.tag = "Realtime" -> 2
      [] self.tag = "BestEffort" -> 1
      [] self.tag = "Idle" -> 0

\* mutant: the kinds of Realtime and BestEffort exchanged
ClassKind_Swapped(self) ==
    CASE self.tag = "Realtime" -> 2
      [] self.tag = "BestEffort" -> 1
      [] self.tag = "Idle" -> 3

ClassKind(self) ==
    CASE self.tag = "Realtime" -> 1
      [] self.tag = "BestEffort" -> 2
      [] self.tag = "Idle" -> 3

ClassData(self) ==
    CASE self.tag = "Realtime" -> RtData(self.level)
      [] self.tag = "BestEffort" -> BeData(self.level)
      [] self.tag = "Idle" -> 0

\* Ord::cmp for Class.  "Panic" is the unreachable!() arm.
ClassCmp(self, other) ==
    LET first == IntCmp(ClassRelPriority(self), ClassRelPriority(other))
    IN  IF first # "Equal" THEN first
        ELSE CASE self.tag = "Realtime" /\ other.tag = "Realtime" ->
                      RtCmp(self.level, other.level)
               [] self.tag = "BestEffort" /\ other.tag = "BestEffort" ->
                      BeCmp(self.level, other.level)
               [] self.tag = "Idle" /\ other.tag = "Idle" -> "Equal"
               [] OTHER -> "Panic"

----------------------------------------------------------------------------
(* Priority *)

Priority(inner) == [inner |-> inner]

\* mutant: the kind shifted by 12
PriorityNew_Shift12(class) ==
    Priority(BitOr(Shl16(ClassKind(class), 12), ClassData(class)))

\* mutant: the data field left out of the mask
PriorityNew_NoData(class) ==
    Priority(Shl16(ClassKind(class), 13))

PriorityNew(class) ==
    Priority(BitOr(Shl16(ClassKind(class), 13), ClassData(class)))

\* mutant: the data truncated to u8 (data as u8) instead of try_into
PriorityClass_Truncating(self) ==
    LET class_raw == Shr16(self.inner, 13)
        data == BitAnd(self.inner, 8191)
    IN  CASE class_raw = 1 ->
                 LET l == RtFromLevel(data % U8Size)
                 IN  IF ~l.some THEN None ELSE Some(Realtime(l.val))
          [] class_raw = 2 ->
                 LET l == BeFromLevel(data % U8Size)
                 IN  IF ~l.some THEN None ELSE Some(BestEffort(l.val))
          [] class_raw = 3 -> Some(Idle)
          [] OTHER -> None

PriorityClass(self) ==
    LET class_raw == Shr16(self.inner, 13)
        data == BitAnd(self.inner, 8191)
    IN  CASE class_raw = 1 ->
                 LET d == TryIntoU8(data)
                 IN  IF ~d.some THEN None
                     ELSE LET l == RtFromLevel(d.val)
                          IN  IF ~l.some THEN None ELSE Some(Realtime(l.val))
          [] class_raw = 2 ->
                 LET d == TryIntoU8(data)
                 IN  IF ~d.some THEN None
                     ELSE LET l == BeFromLevel(d.val)
                          IN  IF ~l.some THEN None ELSE Some(BestEffort(l.val))
          [] class_raw = 3 -> Some(Idle)
          [] OTHER -> None

PriorityStandard == Priority(0)

PriorityInner(self) == self.inner

PriorityFromInner(inner) == Priority(inner)

\* mutant: identical bits compare Equal before either side is decoded
PriorityPartialCmp_BitsFirst(self, other) ==
    IF self.inner = other.inner THEN Some("Equal")
    ELSE LET a == PriorityClass(self)
             b == PriorityClass(other)
         IN  IF ~a.some \/ ~b.some THEN None
             ELSE LET o == ClassCmp(a.val, b.val)
                  IN  IF o = "Panic" THEN Panicked ELSE Some(o)

\* partial_cmp for Priority: each `?` returns None; a panic of Class::cmp
\* propagates.
PriorityPartialCmp(self, other) ==
    LET a == PriorityClass(self)
    IN  IF ~a.some THEN None
        ELSE LET b == PriorityClass(other)
             IN  IF ~b.some THEN None
                 ELSE LET o == ClassCmp(a.val, b.val)
                      IN  IF o = "Panic" THEN Panicked ELSE Some(o)

----------------------------------------------------------------------------
(* Target, the kernel, set_priority and get_priority *)

Process(pid) == [tag |-> "Process", id |-> pid]
ProcessGroup(pgid) == [tag |-> "ProcessGroup", id |-> pgid]
User(uid) == [tag |-> "User", id |-> uid]

\* A u32 (uid_t) is held as its two 16-bit halves: 2^32 - 1 is beyond
\* the integers of the model checker.
U32(hi, lo) == [hi |-> hi, lo |-> lo]

\* pid_t `as libc::c_int`: i32 to i32
PidAsCInt(v) == v

\* uid_t `as libc::c_int`: u32 to i32, the same 32 bits read as signed
UidAsCInt(u) ==
    IF u.hi >= 32768 THEN (u.hi - U16Size) * U16Size + u.lo
    ELSE u.hi * U16Size + u.lo

\* u16 `as libc::c_int`: zero-extended
U16AsCInt(v) == v

TargetWhichWho(target) ==
    CASE target.tag = "Process" -> <<1, PidAsCInt(target.id)>>
      [] target.tag = "ProcessGroup" -> <<2, PidAsCInt(target.id)>>
      [] target.tag = "User" -> <<3, UidAsCInt(target.id)>>

\* libc::syscall: the invocation as the kernel sees it, with its reply
\* (res = -1 and errno set on failure).
Syscall(nr, args, reply) ==
    [nr |-> nr, args |-> args, res |-> reply.res, errno |-> reply.errno]

\* nix Errno::result
ErrnoResult(res, errno) == IF res = -1 THEN Err(errno) ELSE Ok(res)

\* mutant: an undecodable priority is rejected locally with EINVAL
SetPriority_Validating(target, priority, reply) ==
    IF ~PriorityClass(priority).some
    THEN [sys |-> <<>>, ret |-> Err(22)]
    ELSE LET ww == TargetWhichWho(target)
             call == Syscall("ioprio_set",
                             <<ww[1], ww[2], U16AsCInt(priority.inner)>>, reply)
             r == ErrnoResult(call.res, call.errno)
         IN  [sys |-> <<call>>,
              ret |-> IF r.ok THEN Ok(Unit) ELSE r]

\* set_priority: the kernel invocations it makes and what it returns
SetPriority(target, priority, reply) ==
    LET ww == TargetWhichWho(target)
        call == Syscall("ioprio_set",
                        <<ww[1], ww[2], U16AsCInt(priority.inner)>>, reply)
        r == ErrnoResult(call.res, call.errno)
    IN  [sys |-> <<call>>,
         ret |-> IF r.ok THEN Ok(Unit) ELSE r]

\* get_priority: `mask as u16` keeps the low 16 bits
GetPriority(target, reply) ==
    LET ww == TargetWhichWho(target)
        call == Syscall("ioprio_get", <<ww[1], ww[2]>>, reply)
        r == ErrnoResult(call.res, call.errno)
    IN  [sys |-> <<call>>,
         ret |-> IF r.ok THEN Ok(Priority(r.val % U16Size)) ELSE r]

----------------------------------------------------------------------------
(* The values a caller can hold *)

U8 == 0 .. (U8Size - 1)
U16 == 0 .. (U16Size - 1)

\* levels come from from_level or from the named constants
RtLevels ==
    {RtFromLevel(n).val : n \in {m \in U8 : RtFromLevel(m).some}}
        \cup {RtHighest, RtLowest}
BeLevels ==
    {BeFromLevel(n).val : n \in {m \in U8 : BeFromLevel(m).some}}
        \cup {BeHighest, BeFallback, BeLowest}

Classes ==
    {Realtime(l) : l \in RtLevels} \cup {BestEffort(l) : l \in BeLevels} \cup {Idle}

\* raw masks: every kind with data around the level, u8 and 13-bit limits
DataSamples == (0 .. MaxData) \cup {255, 256, 8191}
RawSamples == {k * 8192 + d : k \in 0 .. 7, d \in DataSamples}

\* masks handed to set_priority / returned by the kernel
SysMasks == {0, 8192, 8202, 16388, 24576, 24577, 32768, 65535}

Pids == {-I32Max - 1, -1, 0, I32Max} \cup (1 .. MaxId)
Uids ==
    {U32(0, n) : n \in 0 .. MaxId}
        \cup {U32(32767, 65535), U32(32768, 0), U32(65535, 65535)}
Targets ==
    {Process(p) : p \in Pids} \cup {ProcessGroup(p) : p \in Pids}
        \cup {User(u) : u \in Uids}

\* errno values ioprio_get / ioprio_set fail with: EPERM, ESRCH, EINVAL
Errnos == {1, 3, 22}
SetReplies ==
    {[res |-> 0, errno |-> 0]} \cup {[res |-> -1, errno |-> e] : e \in Errnos}
GetReplies ==
    {[res |-> m, errno |-> 0] : m \in SysMasks}
        \cup {[res |-> -1, errno |-> e] : e \in Errnos}

NoSys == [nr |-> "none", args |-> <<>>, res |-> 0, errno |-> 0]

----------------------------------------------------------------------------
(* Spec: the pure operations *)

Call(o, a, b) ==
    /\ op = o /\ x = a /\ y = b
    /\ pc = "ready" /\ ret = NoArg
    /\ nsys = 0 /\ lastsys = NoSys

Init ==
    \/ \E c \in Classes : Call("new", c, NoArg)
    \/ \E r \in U16 : Call("class", r, NoArg)
    \/ Call("standard", NoArg, NoArg)
    \/ \E n \in U8 : Call("rt_from_level", n, NoArg)
    \/ \E n \in U8 : Call("be_from_level", n, NoArg)
    \/ \E o \in {"rt_highest", "rt_lowest", "be_highest", "be_fallback",
                 "be_lowest"} : Call(o, NoArg, NoArg)
    \/ \E a, b \in RtLevels : Call("rt_cmp", a, b)
    \/ \E a, b \in BeLevels : Call("be_cmp", a, b)
    \/ \E a, b \in Classes : Call("class_cmp", a, b)
    \/ \E a, b \in RawSamples :
           Call("partial_cmp", PriorityFromInner(a), PriorityFromInner(b))

New ==
    /\ op = "new" /\ pc = "ready"
    /\ ret' = PriorityNew(x)
    /\ pc' = "done"
    /\ UNCHANGED <<op, x, y, nsys, lastsys>>

ClassOf ==
    /\ op = "class" /\ pc = "ready"
    /\ ret' = PriorityClass(PriorityFromInner(x))
    /\ pc' = "done"
    /\ UNCHANGED <<op, x, y, nsys, lastsys>>

Standard ==
    /\ op = "standard" /\ pc = "ready"
    /\ ret' = PriorityStandard
    /\ pc' = "done"
    /\ UNCHANGED <<op, x, y, nsys, lastsys>>

RtFromLevelCall ==
    /\ op = "rt_from_level" /\ pc = "ready"
    /\ ret' = RtFromLevel(x)
    /\ pc' = "done"
    /\ UNCHANGED <<op, x, y, nsys, lastsys>>

BeFromLevelCall ==
    /\ op = "be_from_level" /\ pc = "ready"
    /\ ret' = BeFromLevel(x)
    /\ pc' = "done"
    /\ UNCHANGED <<op, x, y, nsys, lastsys>>

RtHighestCall ==
    /\ op = "rt_highest" /\ pc = "ready"
    /\ ret' = RtHighest
    /\ pc' = "done"
    /\ UNCHANGED <<op, x, y, nsys, lastsys>>

RtLowestCall ==
    /\ op = "rt_lowest" /\ pc = "ready"
    /\ ret' = RtLowest
    /\ pc' = "done"
    /\ UNCHANGED <<op, x, y, nsys, lastsys>>

BeHighestCall ==
    /\ op = "be_highest" /\ pc = "ready"
    /\ ret' = BeHighest
    /\ pc' = "done"
    /\ UNCHANGED <<op, x, y, nsys, lastsys>>

BeFallbackCall ==
    /\ op = "be_fallback" /\ pc = "ready"
    /\ ret' = BeFallback
    /\ pc' = "done"
    /\ UNCHANGED <<op, x, y, nsys, lastsys>>

BeLowestCall ==
    /\ op = "be_lowest" /\ pc = "ready"
    /\ ret' = BeLowest
    /\ pc' = "done"
    /\ UNCHANGED <<op, x, y, nsys, lastsys>>

RtCmpCall ==
    /\ op = "rt_cmp" /\ pc = "ready"
    /\ ret' = RtCmp(x, y)
    /\ pc' = "done"
    /\ UNCHANGED <<op, x, y, nsys, lastsys>>

BeCmpCall ==
    /\ op = "be_cmp" /\ pc = "ready"
    /\ ret' = BeCmp(x, y)
    /\ pc' = "done"
    /\ UNCHANGED <<op, x, y, nsys, lastsys>>

ClassCmpCall ==
    /\ op = "class_cmp" /\ pc = "ready"
    /\ ret' = ClassCmp(x, y)
    /\ pc' = "done"
    /\ UNCHANGED <<op, x, y, nsys, lastsys>>

PartialCmpCall ==
    /\ op = "partial_cmp" /\ pc = "ready"
    /\ ret' = PriorityPartialCmp(x, y)
    /\ pc' = "done"
    /\ UNCHANGED <<op, x, y, nsys, lastsys>>

Next ==
    \/ New
    \/ ClassOf
    \/ Standard
    \/ RtFromLevelCall
    \/ BeFromLevelCall
    \/ RtHighestCall
    \/ RtLowestCall
    \/ BeHighestCall
    \/ BeFallbackCall
    \/ BeLowestCall
    \/ RtCmpCall
    \/ BeCmpCall
    \/ ClassCmpCall
    \/ PartialCmpCall

Spec == Init /\ [][Next]_vars

----------------------------------------------------------------------------
(* SpecSys: set_priority and get_priority, one whole call per step *)

InitSys ==
    /\ op = "none" /\ x = NoArg /\ y = NoArg
    /\ pc = "done" /\ ret = NoArg
    /\ nsys = 0 /\ lastsys = NoSys

SetPriorityCall ==
    \E t \in Targets, m \in SysMasks, reply \in SetReplies :
        LET out == SetPriority(t, PriorityFromInner(m), reply)
        IN  /\ nsys + Len(out.sys) <= MaxCalls
            /\ op' = "set_priority" /\ x' = t /\ y' = PriorityFromInner(m)
            /\ pc' = "done" /\ ret' = out.ret
            /\ nsys' = nsys + Len(out.sys)
            /\ lastsys' = IF out.sys = <<>> THEN lastsys
                          ELSE out.sys[Len(out.sys)]

GetPriorityCall ==
    \E t \in Targets, reply \in GetReplies :
        LET out == GetPriority(t, reply)
        IN  /\ nsys + Len(out.sys) <= MaxCalls
            /\ op' = "get_priority" /\ x' = t /\ y' = NoArg
            /\ pc' = "done" /\ ret' = out.ret
            /\ nsys' = nsys + Len(out.sys)
            /\ lastsys' = IF out.sys = <<>> THEN lastsys
                          ELSE out.sys[Len(out.sys)]

NextSys ==
    \/ SetPriorityCall
    \/ GetPriorityCall

SpecSys == InitSys /\ [][NextSys]_vars

----------------------------------------------------------------------------
(* Properties *)

Done(o) == op = o /\ pc = "done"

\* C1: round trip.  For every Class c (Realtime(l), BestEffort(l), Idle,
\* l in 0..7), Priority::new(c).class() is Some(c).
C1_RoundTrip ==
    Done("new") => PriorityClass(ret) = Some(x)

C1_Witness ==
    /\ Done("new")
    /\ x.tag = "Realtime" /\ x.level.inner = 7
    /\ ret.inner = 8199

\* C2: the decoding table.  For every 16-bit r, with kind = r >> 13 and
\* data = r & 0x1FFF, from_inner(r).class() is Some(Realtime(data)) for
\* kind 1 and data <= 7, Some(BestEffort(data)) for kind 2 and data <= 7,
\* Some(Idle) for kind 3 whatever the data, and None otherwise; standard()
\* has inner 0 and decodes to None.
C2_Decode ==
    /\ Done("class") =>
           LET kind == x \div 8192
               data == x % 8192
           IN  ret = IF kind = 1 /\ data <= 7 THEN Some(Realtime(RtLevel(data)))
                     ELSE IF kind = 2 /\ data <= 7
                          THEN Some(BestEffort(BeLevel(data)))
                     ELSE IF kind = 3 THEN Some(Idle)
                     ELSE None
    /\ Done("standard") =>
           /\ PriorityInner(ret) = 0
           /\ PriorityClass(ret) = None

\* kind 1 with data 256: above every u8, so try_into fails
C2_Witness ==
    /\ Done("class")
    /\ x = 8192 + 256
    /\ ret = None

\* C3 as stated: every raw value r that decodes to Some(c) is the encoding
\* of c, so no two raw values decode to the same Class.
C3_Original ==
    (Done("class") /\ ret.some) => PriorityNew(ret.val).inner = x

\* C3, amended: a raw value r that decodes to Realtime or BestEffort is the
\* encoding of the decoded Class; a raw value that decodes to Idle is the
\* encoding of Idle (0x6000) only up to its data bits, which class()
\* ignores: new(Idle).inner() is r with the low 13 bits cleared.
C3_Amended ==
    (Done("class") /\ ret.some) =>
        IF ret.val.tag = "Idle"
        THEN PriorityNew(ret.val).inner = x - (x % 8192)
        ELSE PriorityNew(ret.val).inner = x

\* 0x6001 decodes to Idle, which encodes to 0x6000
C3_Witness ==
    /\ Done("class")
    /\ x = 24577
    /\ ret.some /\ ret.val.tag = "Idle"

\* C4: Priority::new is bit-exact.  Realtime(l) encodes to 0x2000 + l,
\* BestEffort(l) to 0x4000 + l, Idle to 0x6000; bit 15 is never set, the
\* data field never exceeds 7, and two different classes never encode to
\* the same value.
C4_Encode ==
    Done("new") =>
        /\ x.tag = "Realtime" => PriorityInner(ret) = 8192 + RtLevelOf(x.level)
        /\ x.tag = "BestEffort" => PriorityInner(ret) = 16384 + BeLevelOf(x.level)
        /\ x.tag = "Idle" => PriorityInner(ret) = 24576
        /\ PriorityInner(ret) < 32768
        /\ PriorityInner(ret) % 8192 <= 7
        /\ \A c \in Classes :
               c # x => PriorityInner(PriorityNew(c)) # PriorityInner(ret)

\* BestEffort(4) encodes to 0x4004
C4_Witness ==
    /\ Done("new")
    /\ x.tag = "BestEffort" /\ x.level.inner = 4
    /\ ret.inner = 16388

\* C5: Class ordering.  The rank Realtime > BestEffort > Idle decides
\* first, whatever the levels; within a class the smaller raw level is the
\* greater; Idle equals Idle.  The relation is a strict total order on the
\* 17 Classes: Equal exactly for the same Class, antisymmetric, transitive.
C5_ClassOrder ==
    Done("class_cmp") =>
        LET rank(c) == CASE c.tag = "Realtime" -> 3
                         [] c.tag = "BestEffort" -> 2
                         [] c.tag = "Idle" -> 1
        IN  /\ ret = IF x.tag # y.tag
                     THEN (IF rank(x) > rank(y) THEN "Greater" ELSE "Less")
                     ELSE IF x.tag = "Idle" THEN "Equal"
                     ELSE IF x.level.inner < y.level.inner THEN "Greater"
                     ELSE IF x.level.inner > y.level.inner THEN "Less"
                     ELSE "Equal"
            /\ (ret = "Equal") <=> (x = y)
            /\ ClassCmp(y, x) = Reverse(ret)
            /\ \A z \in Classes :
                   (ret = "Greater" /\ ClassCmp(y, z) = "Greater")
                       => ClassCmp(x, z) = "Greater"
            /\ Cardinality(Classes) = 17

\* the lowest Realtime level against the highest BestEffort level
C5_Witness ==
    /\ Done("class_cmp")
    /\ x.tag = "Realtime" /\ x.level.inner = 7
    /\ y.tag = "BestEffort" /\ y.level.inner = 0
    /\ ret = "Greater"

\* the raw masks class() decodes
Decodes(r) ==
    r \in (8192 .. 8199) \cup (16384 .. 16391) \cup (24576 .. 32767)

\* C6: Priority ordering is partial.  partial_cmp(a, b) is Some(cmp(ca, cb))
\* when both decode, to ca and cb, and None as soon as one of the two does
\* not decode, also when a and b are the same undecodable bits.
C6_PartialOrder ==
    Done("partial_cmp") =>
        LET ca == PriorityClass(x)
            cb == PriorityClass(y)
        IN  /\ ret.some <=> (Decodes(x.inner) /\ Decodes(y.inner))
            /\ IF ca.some /\ cb.some
               THEN ret = Some(ClassCmp(ca.val, cb.val))
               ELSE ret = None

\* the standard value against itself
C6_Witness ==
    /\ Done("partial_cmp")
    /\ x.inner = 0 /\ y.inner = 0
    /\ ret = None

\* C7: level construction.  For both level types and every u8 n,
\* from_level(n) is a level iff n <= 7, and its level() is n; highest()
\* wraps 0, lowest() 7, BePriorityLevel::fallback() 4, all values
\* from_level accepts.
C7_FromLevel ==
    /\ Done("rt_from_level") =>
           /\ ret.some <=> x <= 7
           /\ ret.some => RtLevelOf(ret.val) = x
    /\ Done("be_from_level") =>
           /\ ret.some <=> x <= 7
           /\ ret.some => BeLevelOf(ret.val) = x
    /\ Done("rt_highest") => RtLevelOf(ret) = 0 /\ RtFromLevel(0) = Some(ret)
    /\ Done("rt_lowest") => RtLevelOf(ret) = 7 /\ RtFromLevel(7) = Some(ret)
    /\ Done("be_highest") => BeLevelOf(ret) = 0 /\ BeFromLevel(0) = Some(ret)
    /\ Done("be_fallback") => BeLevelOf(ret) = 4 /\ BeFromLevel(4) = Some(ret)
    /\ Done("be_lowest") => BeLevelOf(ret) = 7 /\ BeFromLevel(7) = Some(ret)

\* from_level(8) fails
C7_Witness ==
    /\ Done("be_from_level")
    /\ x = 8
    /\ ret = None

\* C8: level ordering is the reverse of the raw integer.  For both level
\* types, x < y gives Level(x) > Level(y), Equal iff x = y; level 0 is the
\* maximum and level 7 the minimum.
C8_LevelOrder ==
    (Done("rt_cmp") \/ Done("be_cmp")) =>
        /\ x.inner < y.inner => ret = "Greater"
        /\ x.inner > y.inner => ret = "Less"
        /\ (ret = "Equal") <=> (x.inner = y.inner)
        /\ x.inner = 0 => ret \in {"Greater", "Equal"}
        /\ x.inner = 7 => ret \in {"Less", "Equal"}

C8_Witness ==
    /\ Done("rt_cmp")
    /\ x.inner = 0 /\ y.inner = 7
    /\ ret = "Greater"

\* C9: set_priority is a pass-through.  One call makes exactly one kernel
\* invocation, ioprio_set, with selector 1 for Process, 2 for ProcessGroup,
\* 3 for User, the target's id (for a uid, its 32 bits as a c_int) and
\* priority.inner() unchanged, decodable or not; it returns Ok iff the
\* kernel call succeeded and otherwise the kernel's errno.
C9_PassThrough ==
    [][op' = "set_priority" =>
          /\ nsys' = nsys + 1
          /\ lastsys'.nr = "ioprio_set"
          /\ Len(lastsys'.args) = 3
          /\ lastsys'.args[1] = (CASE x'.tag = "Process" -> 1
                                   [] x'.tag = "ProcessGroup" -> 2
                                   [] x'.tag = "User" -> 3)
          /\ x'.tag \in {"Process", "ProcessGroup"} => lastsys'.args[2] = x'.id
          /\ x'.tag = "User" =>
                 /\ lastsys'.args[2] % 65536 = x'.id.lo
                 /\ (lastsys'.args[2] \div 65536) % 65536 = x'.id.hi
                 /\ x'.id.hi < 32768 =>
                        lastsys'.args[2] = x'.id.hi * 65536 + x'.id.lo
          /\ lastsys'.args[3] = y'.inner
          /\ ret'.ok <=> lastsys'.res # -1
          /\ ret' = IF lastsys'.res = -1 THEN Err(lastsys'.errno) ELSE Ok(Unit)
      ]_vars

\* an undecodable mask, for uid 2^31, refused by the kernel with EINVAL
C9_Witness ==
    /\ op = "set_priority"
    /\ x = User(U32(32768, 0))
    /\ ~PriorityClass(y).some
    /\ nsys = 1
    /\ lastsys.args = <<3, -I32Max - 1, y.inner>>
    /\ ret = Err(22)

\* C10: the unreachable!() arm of Class::cmp is never executed.  Equal
\* rel_priority means the same variant, so no comparison of two Classes,
\* and none of two Priorities, panics.
C10_NoPanic ==
    /\ Done("class_cmp") =>
           /\ ret # "Panic"
           /\ ClassRelPriority(x) = ClassRelPriority(y) => x.tag = y.tag
    /\ Done("partial_cmp") => ret # Panicked

\* two variants compared
C10_Witness ==
    /\ Done("class_cmp")
    /\ x.tag = "BestEffort" /\ y.tag = "Idle"
    /\ ret = "Greater"

====
